---- MODULE Spec2Model ----
(***************************************************************************)
(* Model of ABBSystemHardware (abb_hardware_interface.cpp): the on_init    *)
(* configuration sequence, the export of state/command interfaces, the     *)
(* bounded-retry activation loop and the cyclic read/write.                *)
(*                                                                         *)
(* Strings are TLA+ strings; std::string operations are modelled on their  *)
(* characters.  double values are modelled in fixed point, unit 1/10.      *)
(***************************************************************************)
EXTENDS Integers, Sequences, FiniteSets, TLC

(***************************************************************************)
(* Bounds of the model.                                                    *)
(***************************************************************************)
\* largest number of declared joints in a HardwareInfo
MaxJoints == 2

(***************************************************************************)
(* Program constants.                                                      *)
(***************************************************************************)
NUM_CONNECTION_TRIES == 100
INT_MIN == (-2147483647) - 1
UINT16_MODULUS == 65536
\* std::string::npos, as "no position"
npos == -1

HW_IF_POSITION == "position"
HW_IF_VELOCITY == "velocity"
HW_IF_EFFORT == "effort"

(***************************************************************************)
(* std::string helpers.                                                    *)
(***************************************************************************)
CharAt(s, i) == SubSeq(s, i, i)

IsDigit(c) == c \in {"0", "1", "2", "3", "4", "5", "6", "7", "8", "9"}

DigitVal(c) ==
  CASE c = "0" -> 0 [] c = "1" -> 1 [] c = "2" -> 2 [] c = "3" -> 3
    [] c = "4" -> 4 [] c = "5" -> 5 [] c = "6" -> 6 [] c = "7" -> 7
    [] c = "8" -> 8 [] c = "9" -> 9

IsSpace(c) == c = " "

\* index of the first character at or after i that is not white space
RECURSIVE SkipSpace(_, _)
SkipSpace(s, i) ==
  IF i <= Len(s) /\ IsSpace(CharAt(s, i)) THEN SkipSpace(s, i + 1) ELSE i

\* index of the first character at or after i that is not a digit
RECURSIVE DigitsEnd(_, _)
DigitsEnd(s, i) ==
  IF i <= Len(s) /\ IsDigit(CharAt(s, i)) THEN DigitsEnd(s, i + 1) ELSE i

\* index after an optional sign at i
AfterSign(s, i) ==
  IF i <= Len(s) /\ CharAt(s, i) \in {"+", "-"} THEN i + 1 ELSE i

IsNegative(s, i) == i <= Len(s) /\ CharAt(s, i) = "-"

\* the digits s[i..j-1] accumulated as a negative 32-bit number;
\* "overflow" once the magnitude exceeds 2^31
RECURSIVE NegDigits(_, _, _, _)
NegDigits(s, i, j, acc) ==
  IF i >= j THEN [overflow |-> FALSE, value |-> acc]
  ELSE LET d == DigitVal(CharAt(s, i)) IN
       IF acc < -214748364 \/ (acc = -214748364 /\ d > 8)
       THEN [overflow |-> TRUE, value |-> 0]
       ELSE NegDigits(s, i + 1, j, 10 * acc - d)

\* std::stoi(s): base 10, leading white space and sign accepted, trailing
\* characters ignored; invalid_argument when no digit is converted,
\* out_of_range when the value does not fit an int
stoi(s) ==
  LET b == SkipSpace(s, 1)
      d == AfterSign(s, b)
      e == DigitsEnd(s, d)
      n == NegDigits(s, d, e, 0)
  IN IF e = d THEN [threw |-> "invalid_argument", value |-> 0]
     ELSE IF n.overflow THEN [threw |-> "out_of_range", value |-> 0]
     ELSE IF IsNegative(s, b) THEN [threw |-> "none", value |-> n.value]
     ELSE IF n.value = INT_MIN THEN [threw |-> "out_of_range", value |-> 0]
     ELSE [threw |-> "none", value |-> -n.value]

\* std::stod(s) on decimal notation, in 1/10: white space, sign, integer
\* digits, optional '.' and fraction digits (the first one is kept);
\* invalid_argument when no digit is converted
stod(s) ==
  LET b == SkipSpace(s, 1)
      d == AfterSign(s, b)
      e == DigitsEnd(s, d)
      hasDot == e <= Len(s) /\ CharAt(s, e) = "."
      f == IF hasDot THEN DigitsEnd(s, e + 1) ELSE e
      int == NegDigits(s, d, e, 0)
      tenth == IF hasDot /\ f > e + 1 THEN DigitVal(CharAt(s, e + 1)) ELSE 0
      mag == 10 * (-int.value) + tenth
  IN IF e = d /\ (~hasDot \/ f = e + 1)
     THEN [threw |-> "invalid_argument", value |-> 0]
     ELSE [threw |-> "none", value |-> IF IsNegative(s, b) THEN -mag ELSE mag]

\* std::string::find(what) from position 0: 0-based index or npos
RECURSIVE FindFrom(_, _, _)
FindFrom(s, what, i) ==
  IF i + Len(what) > Len(s) THEN npos
  ELSE IF SubSeq(s, i + 1, i + Len(what)) = what THEN i
  ELSE FindFrom(s, what, i + 1)

find(s, what) == FindFrom(s, what, 0)

\* std::string::substr(pos): out_of_range when pos > size(); npos is the
\* largest size_t
substr(s, pos) ==
  IF pos = npos \/ pos > Len(s) THEN [threw |-> "out_of_range", value |-> ""]
  ELSE [threw |-> "none", value |-> SubSeq(s, pos + 1, Len(s))]

(***************************************************************************)
(* std::map / std::unordered_map<std::string, std::string> as a function.  *)
(***************************************************************************)
EmptyMap == [k \in {} |-> ""]

Contains(m, k) == k \in DOMAIN m

\* the map after operator[](k): a missing key is inserted with ""
Touch(m, k) == IF k \in DOMAIN m THEN m ELSE m @@ (k :> "")

\* the value operator[](k) returns
At(m, k) == IF k \in DOMAIN m THEN m[k] ELSE ""

(***************************************************************************)
(* hardware_interface::HardwareInfo, as on_init receives it.               *)
(***************************************************************************)
InterfaceInfo(name, min, max) == [name |-> name, min |-> min, max |-> max]

ComponentInfo(name, command_interfaces, state_interfaces, parameters) ==
  [name |-> name, command_interfaces |-> command_interfaces,
   state_interfaces |-> state_interfaces, parameters |-> parameters]

HardwareInfo(joints, hardware_parameters) ==
  [joints |-> joints, hardware_parameters |-> hardware_parameters]

EmptyInfo == HardwareInfo(<<>>, EmptyMap)

(***************************************************************************)
(* abb::robot::RobotControllerDescription (protobuf message).              *)
(***************************************************************************)
EmptyDescription ==
  [header |-> [robot_ware_version |-> <<0, 0, 0>>],
   system_indicators |-> [options |-> [egm |-> FALSE]],
   mechanical_units_groups |-> <<>>]

StandardizedJoint(name, rotating, lower, upper) ==
  [standardized_name |-> name, rotating_move |-> rotating,
   lower_joint_bound |-> lower, upper_joint_bound |-> upper]

MechanicalUnit(type, axes_total, mode, joints) ==
  [type |-> type, axes_total |-> axes_total, mode |-> mode,
   standardized_joints |-> joints]

MechanicalUnitGroup(name, robot) == [name |-> name, robot |-> robot]

(***************************************************************************)
(* abb::robot::MotionData and abb::robot::EGMManager.                      *)
(***************************************************************************)
EmptyMotionData == [groups |-> <<>>]

ZeroValues == [position |-> 0, velocity |-> 0]

NullManager == [constructed |-> FALSE, channel_configurations |-> <<>>]

ChannelConfiguration(port_number, mech_unit_group) ==
  [port_number |-> port_number, mech_unit_group |-> mech_unit_group]

(***************************************************************************)
(* The instance and its caller.                                            *)
(***************************************************************************)
VARIABLES
  info_,                          \* SystemInterface::info_
  robot_controller_description_,  \* ABBSystemHardware member
  motion_data_,                   \* ABBSystemHardware member
  motion_alloc,                   \* allocation of motion_data_'s vectors
  egm_manager_,                   \* ABBSystemHardware member (unique_ptr)
  rclcpp_ok,                      \* rclcpp::ok()
  pc,                             \* position of the running call
  counter,                        \* on_activate's local counter
  call,                           \* the last call started
  ret,                            \* how it ended: the value it returned or
                                  \* the exception that escaped it
  init_ret,                       \* how on_init ended
  init_log,                       \* collaborators on_init has used, in order
  failed_stage,                   \* stage of the diagnostic on_init logged
  failed_joint,                   \* index of the joint that diagnostic names
  attempts,                       \* waitForMessage calls of the last call
  sleeps,                         \* sleep_for calls of the last call
  connected,                      \* a waitForMessage of the last call returned true
  cancelled,                      \* rclcpp::ok() was false at a loop test of the last call
  egm_reads,                      \* EGMManager::read calls of the last call
  egm_writes,                     \* EGMManager::write calls of the last call
  state_interfaces,               \* last result of export_state_interfaces
  command_interfaces,             \* last result of export_command_interfaces
                                  \* (of those after a successful on_init)
  ub                              \* a call has dereferenced a null egm_manager_

vars ==
  <<info_, robot_controller_description_, motion_data_, motion_alloc,
    egm_manager_, rclcpp_ok, pc, counter, call, ret, init_ret, init_log,
    failed_stage, failed_joint,
    attempts, sleeps, connected, cancelled, egm_reads, egm_writes,
    state_interfaces, command_interfaces, ub>>

\* an export result; repeated tells that an earlier result existed
NoResult == [returned |-> FALSE, repeated |-> FALSE, value |-> <<>>]

Result(previous, value) ==
  [returned |-> TRUE, repeated |-> previous.returned, value |-> value]

Init ==
  /\ info_ = EmptyInfo
  /\ robot_controller_description_ = EmptyDescription
  /\ motion_data_ = EmptyMotionData
  /\ motion_alloc = 0
  /\ egm_manager_ = NullManager
  /\ rclcpp_ok = TRUE
  /\ pc = "idle"
  /\ counter = 0
  /\ call = "none"
  /\ ret = "none"
  /\ init_ret = "none"
  /\ init_log = <<>>
  /\ failed_stage = "none"
  /\ failed_joint = 0
  /\ attempts = 0
  /\ sleeps = 0
  /\ connected = FALSE
  /\ cancelled = FALSE
  /\ egm_reads = 0
  /\ egm_writes = 0
  /\ state_interfaces = NoResult
  /\ command_interfaces = NoResult
  /\ ub = FALSE

(***************************************************************************)
(* on_init, stage by stage.  A stage maps the context c of the running     *)
(* on_init (the members as assigned so far, the collaborators used so far, *)
(* and ret, "none" while the call is still running) to the context after   *)
(* the stage.                                                              *)
(***************************************************************************)
Running(c) == c.ret = "none"

Return(c, value, stage) == [c EXCEPT !.ret = value, !.stage = stage]

\* an exception that no handler of on_init catches
Escape(c, exception, stage) == [c EXCEPT !.ret = exception, !.stage = stage]

Log(c, collaborator) == [c EXCEPT !.log = Append(@, collaborator)]

\* the checks of one joint without those of the state interfaces
JointConforms_CommandOnly(joint) ==
  /\ Len(joint.command_interfaces) = 2
  /\ joint.command_interfaces[1].name = HW_IF_POSITION
  /\ joint.command_interfaces[2].name = HW_IF_VELOCITY

\* the checks of one joint, lines 36-76
JointConforms(joint) ==
  /\ Len(joint.command_interfaces) = 2
  /\ joint.command_interfaces[1].name = HW_IF_POSITION
  /\ joint.command_interfaces[2].name = HW_IF_VELOCITY
  /\ Len(joint.state_interfaces) = 2
  /\ joint.state_interfaces[1].name = HW_IF_POSITION
  /\ joint.state_interfaces[2].name = HW_IF_VELOCITY

\* index of the first joint at or after i that violates the contract, or 0
RECURSIVE FirstViolation(_, _)
FirstViolation(joints, i) ==
  IF i > Len(joints) THEN 0
  ELSE IF ~JointConforms(joints[i]) THEN i
  ELSE FirstViolation(joints, i + 1)

\* SystemInterface::on_init(info): stores info_; base_ok is its result
BaseInit(c, info, base_ok) ==
  LET c1 == [c EXCEPT !.info = info]
  IN IF base_ok THEN c1 ELSE Return(c1, "ERROR", "base")

ValidateInterfaces(c) ==
  IF ~Running(c) THEN c
  ELSE IF FirstViolation(c.info.joints, 1) # 0
       THEN [Return(c, "ERROR", "validation") EXCEPT
               !.joint = FirstViolation(c.info.joints, 1)]
       ELSE c

\* a parse that takes only "true" for true
configure_via_rws_OnlyTrue(hardware_parameters) ==
  IF ~Contains(hardware_parameters, "configure_via_rws") THEN TRUE
  ELSE hardware_parameters["configure_via_rws"] = "true"

\* lines 82-85
configure_via_rws(hardware_parameters) ==
  IF ~Contains(hardware_parameters, "configure_via_rws") THEN TRUE
  ELSE IF hardware_parameters["configure_via_rws"] \in {"false", "False"}
       THEN FALSE
       ELSE TRUE

\* utilities::establishRWSConnection: the description the controller
\* reports, or a failure after its connection attempts
establishRWSConnection(c, rws) ==
  IF rws.reachable
  THEN [Log(c, "establishRWSConnection") EXCEPT !.description = rws.description]
  ELSE Escape(Log(c, "establishRWSConnection"), "runtime_error", "description")

\* query mode, lines 89-101
DescriptionFromRWS(c, rws) ==
  LET p1 == Touch(c.info.hardware_parameters, "rws_port")
      rws_port == stoi(At(c.info.hardware_parameters, "rws_port"))
      p2 == Touch(p1, "rws_ip")
      rws_ip == At(p1, "rws_ip")
      c1 == [c EXCEPT !.info.hardware_parameters = p1]
      c2 == [c EXCEPT !.info.hardware_parameters = p2]
  IN IF rws_port.threw # "none" THEN Escape(c1, rws_port.threw, "description")
     ELSE IF rws_ip = "None" THEN Return(c2, "ERROR", "description")
     ELSE establishRWSConnection(Log(c2, "RWSManager"), rws)

\* revolute only when no "type" parameter is given
is_revolute_TypeAbsent(joint) == ~Contains(joint.parameters, "type")

\* line 136
is_revolute(joint) ==
  IF Contains(joint.parameters, "type") /\ joint.parameters["type"] # "revolute"
  THEN FALSE
  ELSE TRUE

\* index of the first interface at or after k named position, or 0
RECURSIVE FirstPositionInterface(_, _)
FirstPositionInterface(interfaces, k) ==
  IF k > Len(interfaces) THEN 0
  ELSE IF interfaces[k].name = HW_IF_POSITION THEN k
  ELSE FirstPositionInterface(interfaces, k + 1)

\* the loop of lines 129-157 from joint i on; added is the robot's
\* standardized_joints so far
RECURSIVE AddJoints(_, _, _)
AddJoints(joints, i, added) ==
  IF i > Len(joints) THEN [threw |-> "none", standardized_joints |-> added]
  ELSE LET joint == joints[i]
           k == FirstPositionInterface(joint.command_interfaces, 1)
       IN IF k = 0 THEN AddJoints(joints, i + 1, added)
          ELSE LET min == stod(joint.command_interfaces[k].min)
                   max == stod(joint.command_interfaces[k].max)
               IN IF min.threw # "none"
                  THEN [threw |-> min.threw, standardized_joints |-> added]
                  ELSE IF max.threw # "none"
                  THEN [threw |-> max.threw, standardized_joints |-> added]
                  ELSE AddJoints(joints, i + 1,
                         Append(added,
                                StandardizedJoint(joint.name, is_revolute(joint),
                                                  min.value, max.value)))

\* synthesis mode, lines 105-157
DescriptionFromHardwareInfo(c) ==
  LET joints == c.info.joints
      r == AddJoints(joints, 1, <<>>)
      robot == MechanicalUnit("TCP_ROBOT", Len(joints), "ACTIVATED",
                              r.standardized_joints)
      d == [c.description EXCEPT
              !.header.robot_ware_version = <<7, 3, 2>>,
              !.system_indicators.options.egm = TRUE,
              !.mechanical_units_groups =
                 Append(@, MechanicalUnitGroup("", robot))]
      c1 == [c EXCEPT !.description = d]
  IN IF r.threw # "none" THEN Escape(c1, r.threw, "description") ELSE c1

BuildDescription(c, rws) ==
  IF ~Running(c) THEN c
  ELSE IF configure_via_rws(c.info.hardware_parameters)
       THEN DescriptionFromRWS(c, rws)
       ELSE DescriptionFromHardwareInfo(c)

\* abb::robot::initializeMotionData: one group, unit and joint per entry
\* of the description, in its order, all values zero
MotionJoint(j) ==
  [name |-> j.standardized_name, state |-> ZeroValues, command |-> ZeroValues]

MotionGroup(g) ==
  [name |-> g.name,
   units |-> << [joints |-> [i \in 1..Len(g.robot.standardized_joints) |->
                               MotionJoint(g.robot.standardized_joints[i])]] >>]

initializeMotionData(description) ==
  [groups |-> [i \in 1..Len(description.mechanical_units_groups) |->
                 MotionGroup(description.mechanical_units_groups[i])]]

\* lines 167-175
InitMotionData(c, motion_ok) ==
  IF ~Running(c) THEN c
  ELSE IF motion_ok
       THEN [Log(c, "initializeMotionData") EXCEPT
               !.motion = initializeMotionData(c.description),
               !.alloc = @ + 1]
       ELSE Return(Log(c, "initializeMotionData"), "ERROR", "motion_data")

\* the loop of lines 179-196 from group i on
RECURSIVE ResolvePorts(_, _, _, _)
ResolvePorts(groups, i, hardware_parameters, configurations) ==
  IF i > Len(groups)
  THEN [threw |-> "none", hardware_parameters |-> hardware_parameters,
        channel_configurations |-> configurations]
  ELSE LET key == groups[i].name \o "egm_port"
           egm_port == stoi(At(hardware_parameters, key))
           touched == Touch(hardware_parameters, key)
       IN IF egm_port.threw # "none"
          THEN [threw |-> egm_port.threw, hardware_parameters |-> touched,
                channel_configurations |-> configurations]
          ELSE ResolvePorts(groups, i + 1, touched,
                 Append(configurations,
                        ChannelConfiguration(egm_port.value % UINT16_MODULUS,
                                             groups[i])))

\* a builder that hands the configurations over last group first
ConfigureEGM_LastGroupFirst(c, egm_ok) ==
  IF ~Running(c) THEN c
  ELSE LET r == ResolvePorts(c.description.mechanical_units_groups, 1,
                             c.info.hardware_parameters, <<>>)
           n == Len(r.channel_configurations)
           c1 == [c EXCEPT !.info.hardware_parameters = r.hardware_parameters]
       IN IF r.threw = "invalid_argument" THEN Return(c1, "ERROR", "egm_port")
          ELSE IF r.threw # "none" THEN Escape(c1, r.threw, "egm_port")
          ELSE IF egm_ok
          THEN [Log(c1, "EGMManager") EXCEPT
                  !.egm = [constructed |-> TRUE,
                           channel_configurations |->
                             [i \in 1..n |-> r.channel_configurations[n + 1 - i]]]]
          ELSE Return(Log(c1, "EGMManager"), "ERROR", "egm_manager")

\* lines 177-205; egm_ok: the EGMManager constructor opens every channel
ConfigureEGM(c, egm_ok) ==
  IF ~Running(c) THEN c
  ELSE LET r == ResolvePorts(c.description.mechanical_units_groups, 1,
                             c.info.hardware_parameters, <<>>)
           c1 == [c EXCEPT !.info.hardware_parameters = r.hardware_parameters]
       IN IF r.threw = "invalid_argument" THEN Return(c1, "ERROR", "egm_port")
          ELSE IF r.threw # "none" THEN Escape(c1, r.threw, "egm_port")
          ELSE IF egm_ok
          THEN [Log(c1, "EGMManager") EXCEPT
                  !.egm = [constructed |-> TRUE,
                           channel_configurations |-> r.channel_configurations]]
          ELSE Return(Log(c1, "EGMManager"), "ERROR", "egm_manager")

Finish(c) == IF Running(c) THEN Return(c, "SUCCESS", "none") ELSE c

\* the context after the whole of on_init, lines 26-208
OnInitResult(c, info, base_ok, rws, motion_ok, egm_ok) ==
  Finish(ConfigureEGM(InitMotionData(BuildDescription(
    ValidateInterfaces(BaseInit(c, info, base_ok)), rws), motion_ok), egm_ok))

(***************************************************************************)
(* MotionData traversal, EGMManager::read and the export functions.        *)
(***************************************************************************)
RECURSIVE Flatten(_)
Flatten(seqs) == IF Len(seqs) = 0 THEN <<>> ELSE Head(seqs) \o Flatten(Tail(seqs))

\* <<group, unit, joint>> of every joint, in the order of the nested loops
\* over groups, units and joints
JointPaths(motion) ==
  Flatten([g \in 1..Len(motion.groups) |->
    Flatten([u \in 1..Len(motion.groups[g].units) |->
      [j \in 1..Len(motion.groups[g].units[u].joints) |-> <<g, u, j>>]])])

JointAt(motion, path) == motion.groups[path[1]].units[path[2]].joints[path[3]]

JointCount(motion) == Len(JointPaths(motion))

\* the values a received EGM message carries for joint j of its group
\* (in 1/10): positions 0.7, 0.8, ... and a velocity of 0.1
Sample(j) == [position |-> 6 + j, velocity |-> 1]

\* what the channel of one group holds at a read: nothing new, or a
\* message with a sample per joint of the group
ChannelStates(group) ==
  { [fresh |-> FALSE, joints |-> <<>>],
    [fresh |-> TRUE,
     joints |-> [j \in 1..Len(group.units[1].joints) |-> Sample(j)]] }

Messages(motion) ==
  {m \in [1..Len(motion.groups) ->
            UNION {ChannelStates(motion.groups[g]) : g \in 1..Len(motion.groups)}] :
     \A g \in 1..Len(motion.groups) : m[g] \in ChannelStates(motion.groups[g])}

\* EGMManager::read(motion_data): the state of every joint of a group
\* with a new message is refreshed, the others keep their last values
EGMRead(motion, m) ==
  [groups |->
     [g \in 1..Len(motion.groups) |->
        IF m[g].fresh
        THEN [motion.groups[g] EXCEPT !.units =
                [u \in 1..Len(motion.groups[g].units) |->
                   [joints |->
                      [j \in 1..Len(motion.groups[g].units[u].joints) |->
                         [motion.groups[g].units[u].joints[j] EXCEPT
                            !.state = m[g].joints[j]]]]]]
        ELSE motion.groups[g]]]

\* lines 286-287
SeedJoint(joint) ==
  [joint EXCEPT !.command = [position |-> joint.state.position, velocity |-> 0]]

\* lines 280-290
SeedCommands(motion) ==
  [groups |->
     [g \in 1..Len(motion.groups) |->
        [motion.groups[g] EXCEPT !.units =
           [u \in 1..Len(motion.groups[g].units) |->
              [joints |->
                 [j \in 1..Len(motion.groups[g].units[u].joints) |->
                    SeedJoint(motion.groups[g].units[u].joints[j])]]]]]]

\* &joint.<part>.<field>: an address inside the allocation of motion_data_
Address(alloc, path, part, field) ==
  [alloc |-> alloc, path |-> path, part |-> part, field |-> field]

Interface(name, interface_name, value_ptr) ==
  [name |-> name, interface_name |-> interface_name, value_ptr |-> value_ptr]

\* the loop body of lines 221-226 (244-249) over the joints at paths
RECURSIVE ExportJoints(_, _, _, _)
ExportJoints(motion, alloc, part, paths) ==
  IF Len(paths) = 0 THEN [threw |-> "none", value |-> <<>>]
  ELSE LET joint == JointAt(motion, Head(paths))
           pos == find(joint.name, "joint")
           joint_name == substr(joint.name, pos)
       IN IF joint_name.threw # "none"
          THEN [threw |-> joint_name.threw, value |-> <<>>]
          ELSE LET rest == ExportJoints(motion, alloc, part, Tail(paths))
               IN IF rest.threw # "none" THEN rest
                  ELSE [threw |-> "none",
                        value |->
                          << Interface(joint_name.value, HW_IF_POSITION,
                               Address(alloc, Head(paths), part, "position")),
                             Interface(joint_name.value, HW_IF_VELOCITY,
                               Address(alloc, Head(paths), part, "velocity")) >>
                          \o rest.value]

ExportStateInterfaces(motion, alloc) ==
  ExportJoints(motion, alloc, "state", JointPaths(motion))

ExportCommandInterfaces(motion, alloc) ==
  ExportJoints(motion, alloc, "command", JointPaths(motion))

(***************************************************************************)
(* The configurations and collaborator outcomes the model draws from.      *)
(***************************************************************************)
Plain(name) == InterfaceInfo(name, "", "")

PositionVelocity == <<Plain(HW_IF_POSITION), Plain(HW_IF_VELOCITY)>>

Bounded(min, max) ==
  <<InterfaceInfo(HW_IF_POSITION, min, max), Plain(HW_IF_VELOCITY)>>

\* joints that satisfy the interface contract; joint_4 gives no lower bound
ConformingJoints ==
  { ComponentInfo("joint_1", Bounded("-1.0", "1.0"), PositionVelocity, EmptyMap),
    ComponentInfo("rob_joint_2", Bounded("0.0", "0.5"), PositionVelocity,
                  "type" :> "prismatic"),
    ComponentInfo("j3", Bounded("-2.5", "2.5"), PositionVelocity,
                  "type" :> "revolute"),
    ComponentInfo("joint_4", Bounded("", "1.0"), PositionVelocity, EmptyMap) }

\* joints that violate it, one per check of lines 36-76
ViolatingJoints ==
  { ComponentInfo("joint_5", <<InterfaceInfo(HW_IF_POSITION, "-1.0", "1.0")>>,
                  PositionVelocity, EmptyMap),
    ComponentInfo("joint_6",
                  <<Plain(HW_IF_VELOCITY), InterfaceInfo(HW_IF_POSITION, "-1.0", "1.0")>>,
                  PositionVelocity, EmptyMap),
    ComponentInfo("joint_7",
                  <<InterfaceInfo(HW_IF_POSITION, "-1.0", "1.0"), Plain(HW_IF_EFFORT)>>,
                  PositionVelocity, EmptyMap),
    ComponentInfo("joint_8", Bounded("-1.0", "1.0"),
                  <<Plain(HW_IF_POSITION), Plain(HW_IF_VELOCITY), Plain(HW_IF_EFFORT)>>,
                  EmptyMap),
    ComponentInfo("joint_9", Bounded("-1.0", "1.0"),
                  <<Plain(HW_IF_EFFORT), Plain(HW_IF_VELOCITY)>>, EmptyMap),
    ComponentInfo("joint_10", Bounded("-1.0", "1.0"),
                  <<Plain(HW_IF_POSITION), Plain(HW_IF_POSITION)>>, EmptyMap) }

JointChoices == ConformingJoints \cup ViolatingJoints

JointLists == UNION {[1..n -> JointChoices] : n \in 0..MaxJoints}

ConformingLists == UNION {[1..n -> ConformingJoints] : n \in 0..MaxJoints}

\* values of an egm_port parameter
PortStrings == {"6511", "abc", "70000", "99999999999", "6511x"}

Optional(key, values) == {EmptyMap} \cup {key :> v : v \in values}

SynthesisParameters ==
  {("configure_via_rws" :> "false") @@ port :
     port \in Optional("egm_port", PortStrings)}
  \cup {("configure_via_rws" :> "False") @@ ("egm_port" :> "6511")}

\* rws_port and rws_ip
Endpoints ==
  { EmptyMap,
    ("rws_port" :> "80") @@ ("rws_ip" :> "None"),
    ("rws_port" :> "80") @@ ("rws_ip" :> "192.168.125.1"),
    ("rws_port" :> "http") @@ ("rws_ip" :> "192.168.125.1"),
    "rws_port" :> "80" }

\* the ports of the groups "", "rob1" and "rob2"
AllGroupPorts ==
  ("egm_port" :> "6511") @@ ("rob1egm_port" :> "6512") @@ ("rob2egm_port" :> "6513")

GroupPorts ==
  { EmptyMap, ("egm_port" :> "6511") @@ ("rob1egm_port" :> "6512"),
    ("egm_port" :> "6511") @@ ("rob1egm_port" :> "99999999999"), AllGroupPorts }

QueryParameters ==
  {endpoint @@ ports : endpoint \in Endpoints, ports \in GroupPorts}
  \cup {("configure_via_rws" :> mode) @@ ("rws_port" :> "80")
          @@ ("rws_ip" :> "192.168.125.1") @@ AllGroupPorts :
          mode \in {"true", "yes"}}

\* every list of conforming joints with every parameter map, and every
\* joint list with the parameters of one synthesis and one query setup
HardwareInfos ==
  {HardwareInfo(joints, parameters) :
     joints \in ConformingLists,
     parameters \in SynthesisParameters \cup QueryParameters}
  \cup
  {HardwareInfo(joints, parameters) :
     joints \in JointLists,
     parameters \in {("configure_via_rws" :> "false") @@ ("egm_port" :> "6511"),
                     ("rws_port" :> "80") @@ ("rws_ip" :> "192.168.125.1")
                       @@ AllGroupPorts}}

ControllerRobot(names) ==
  MechanicalUnit("TCP_ROBOT", Len(names), "ACTIVATED",
                 [i \in 1..Len(names) |->
                    StandardizedJoint(names[i], TRUE, -30, 30)])

ControllerDescription(groups) ==
  [header |-> [robot_ware_version |-> <<7, 3, 2>>],
   system_indicators |-> [options |-> [egm |-> TRUE]],
   mechanical_units_groups |-> groups]

\* what a controller reports: one unnamed group, or the groups of a
\* two-robot system
ControllerDescriptions ==
  { ControllerDescription(
      <<MechanicalUnitGroup("", ControllerRobot(<<"joint_1", "joint_2">>))>>),
    ControllerDescription(
      <<MechanicalUnitGroup("rob1", ControllerRobot(<<"rob1_joint_1">>)),
        MechanicalUnitGroup("rob2", ControllerRobot(<<"rob2_joint_1">>))>>) }

RWSOutcomes ==
  {[reachable |-> FALSE, description |-> EmptyDescription]} \cup
  {[reachable |-> TRUE, description |-> d] : d \in ControllerDescriptions}

\* the configurations of the lifecycle specification: synthesis mode with
\* two joints, and one whose port is missing
LifecycleInfos ==
  { HardwareInfo(<<ComponentInfo("joint_1", Bounded("-1.0", "1.0"),
                                 PositionVelocity, EmptyMap),
                   ComponentInfo("rob_joint_2", Bounded("0.0", "0.5"),
                                 PositionVelocity, "type" :> "prismatic")>>,
                 ("configure_via_rws" :> "false") @@ ("egm_port" :> "6511")),
    HardwareInfo(<<ComponentInfo("joint_1", Bounded("-1.0", "1.0"),
                                 PositionVelocity, EmptyMap)>>,
                 "configure_via_rws" :> "false") }

(***************************************************************************)
(* The calls.                                                              *)
(***************************************************************************)
members ==
  <<info_, robot_controller_description_, motion_data_, motion_alloc,
    egm_manager_>>

init_ghost == <<init_ret, init_log, failed_stage, failed_joint>>

activate_ghost == <<attempts, sleeps, connected, cancelled>>

exported == <<state_interfaces, command_interfaces>>

\* a call starts: it has not used the channel manager yet
Enter(name) ==
  /\ call' = name
  /\ attempts' = 0
  /\ sleeps' = 0
  /\ connected' = FALSE
  /\ cancelled' = FALSE

\* on_init, lines 26-208, on a new instance
on_init(info, base_ok, rws, motion_ok, egm_ok) ==
  /\ pc = "idle"
  /\ init_ret = "none"
  /\ LET c == OnInitResult(
               [ret |-> "none", stage |-> "none", joint |-> 0, log |-> <<>>,
                info |-> info_,
                description |-> robot_controller_description_,
                motion |-> motion_data_, alloc |-> motion_alloc,
                egm |-> egm_manager_],
               info, base_ok, rws, motion_ok, egm_ok)
     IN /\ info_' = c.info
        /\ robot_controller_description_' = c.description
        /\ motion_data_' = c.motion
        /\ motion_alloc' = c.alloc
        /\ egm_manager_' = c.egm
        /\ ret' = c.ret
        /\ init_ret' = c.ret
        /\ init_log' = c.log
        /\ failed_stage' = c.stage
        /\ failed_joint' = c.joint
  /\ Enter("on_init")
  /\ egm_reads' = 0
  /\ egm_writes' = 0
  /\ UNCHANGED <<rclcpp_ok, pc, counter, exported, ub>>

\* an export that rebuilds the motion data before binding into it
export_state_interfaces_Rebuilding ==
  /\ pc = "idle"
  /\ motion_data_' = initializeMotionData(robot_controller_description_)
  /\ motion_alloc' = motion_alloc + 1
  /\ LET r == ExportStateInterfaces(motion_data_', motion_alloc')
     IN /\ ret' = IF r.threw = "none" THEN "returned" ELSE r.threw
        /\ state_interfaces' =
             IF r.threw = "none" /\ init_ret = "SUCCESS"
             THEN Result(state_interfaces, r.value)
             ELSE state_interfaces
  /\ Enter("export_state_interfaces")
  /\ egm_reads' = 0
  /\ egm_writes' = 0
  /\ UNCHANGED <<info_, robot_controller_description_, egm_manager_,
                 rclcpp_ok, pc, counter, init_ghost, command_interfaces, ub>>

\* lines 210-231
export_state_interfaces ==
  /\ pc = "idle"
  /\ LET r == ExportStateInterfaces(motion_data_, motion_alloc)
     IN /\ ret' = IF r.threw = "none" THEN "returned" ELSE r.threw
        /\ state_interfaces' =
             IF r.threw = "none" /\ init_ret = "SUCCESS"
             THEN Result(state_interfaces, r.value)
             ELSE state_interfaces
  /\ Enter("export_state_interfaces")
  /\ egm_reads' = 0
  /\ egm_writes' = 0
  /\ UNCHANGED <<members, rclcpp_ok, pc, counter, init_ghost,
                 command_interfaces, ub>>

\* lines 233-255
export_command_interfaces ==
  /\ pc = "idle"
  /\ LET r == ExportCommandInterfaces(motion_data_, motion_alloc)
     IN /\ ret' = IF r.threw = "none" THEN "returned" ELSE r.threw
        /\ command_interfaces' =
             IF r.threw = "none" /\ init_ret = "SUCCESS"
             THEN Result(command_interfaces, r.value)
             ELSE command_interfaces
  /\ Enter("export_command_interfaces")
  /\ egm_reads' = 0
  /\ egm_writes' = 0
  /\ UNCHANGED <<members, rclcpp_ok, pc, counter, init_ghost,
                 state_interfaces, ub>>

\* egm_manager_-> on a null unique_ptr is undefined: the process is
\* killed, or the call returns some value with the members untouched
UndefinedBehaviour(outcome) ==
  /\ ub' = TRUE
  /\ pc' = IF outcome = "crash" THEN "crashed" ELSE "idle"
  /\ ret' = outcome
  /\ counter' = 0
  /\ UNCHANGED <<members, rclcpp_ok, init_ghost, exported, egm_reads,
                 egm_writes>>

\* lines 259-260: on_activate is entered
on_activate ==
  /\ pc = "idle"
  /\ pc' = "activate_test"
  /\ counter' = 0
  /\ Enter("on_activate")
  /\ ret' = "none"
  /\ egm_reads' = 0
  /\ egm_writes' = 0
  /\ UNCHANGED <<members, rclcpp_ok, init_ghost, exported, ub>>

\* line 261: rclcpp::ok() && ++counter < NUM_CONNECTION_TRIES
on_activate_test ==
  /\ pc = "activate_test"
  /\ IF rclcpp_ok
     THEN /\ counter' = counter + 1
          /\ pc' = IF counter + 1 < NUM_CONNECTION_TRIES
                   THEN "activate_wait" ELSE "activate_seed"
          /\ cancelled' = cancelled
     ELSE /\ counter' = counter
          /\ pc' = "activate_seed"
          /\ cancelled' = TRUE
  /\ UNCHANGED <<members, rclcpp_ok, call, ret, init_ghost, attempts, sleeps,
                 connected, egm_reads, egm_writes, exported, ub>>

\* a loop body without the break of line 266: after a message it sleeps
\* and tests again
on_activate_wait_WithoutBreak(message) ==
  /\ pc = "activate_wait"
  /\ egm_manager_.constructed
  /\ attempts' = attempts + 1
  /\ connected' = (connected \/ message)
  /\ IF counter = NUM_CONNECTION_TRIES
     THEN /\ pc' = "idle"
          /\ ret' = "ERROR"
          /\ counter' = 0
          /\ UNCHANGED sleeps
     ELSE /\ sleeps' = sleeps + 1
          /\ pc' = "activate_test"
          /\ UNCHANGED <<ret, counter>>
  /\ UNCHANGED <<members, rclcpp_ok, call, init_ghost, cancelled, egm_reads,
                 egm_writes, exported, ub>>

\* lines 264-276: one pass of the loop body; message is what
\* waitForMessage(500) returns
on_activate_wait(message) ==
  /\ pc = "activate_wait"
  /\ egm_manager_.constructed
  /\ attempts' = attempts + 1
  /\ IF message
     THEN /\ connected' = TRUE
          /\ pc' = "activate_seed"
          /\ UNCHANGED <<ret, sleeps, counter>>
     ELSE IF counter = NUM_CONNECTION_TRIES
     THEN /\ pc' = "idle"
          /\ ret' = "ERROR"
          /\ counter' = 0
          /\ UNCHANGED <<connected, sleeps>>
     ELSE /\ sleeps' = sleeps + 1
          /\ pc' = "activate_test"
          /\ UNCHANGED <<ret, connected, counter>>
  /\ UNCHANGED <<members, rclcpp_ok, call, init_ghost, cancelled, egm_reads,
                 egm_writes, exported, ub>>

\* lines 279-294: the seeding read, the command seeding and the return;
\* m is what the channels hold at the read
on_activate_seed(m) ==
  /\ pc = "activate_seed"
  /\ egm_manager_.constructed
  /\ motion_data_' = SeedCommands(EGMRead(motion_data_, m))
  /\ egm_reads' = egm_reads + 1
  /\ ret' = "SUCCESS"
  /\ pc' = "idle"
  /\ counter' = 0
  /\ UNCHANGED <<info_, robot_controller_description_, motion_alloc,
                 egm_manager_, rclcpp_ok, call, init_ghost, activate_ghost,
                 egm_writes, exported, ub>>

\* lines 264 and 279 when egm_manager_ is null
on_activate_null(outcome) ==
  /\ pc \in {"activate_wait", "activate_seed"}
  /\ ~egm_manager_.constructed
  /\ UndefinedBehaviour(outcome)
  /\ UNCHANGED <<call, activate_ghost>>

\* a read that waits for a message before it reads
read_AwaitingMessage(m) ==
  /\ pc = "idle"
  /\ egm_manager_.constructed
  /\ motion_data_' = EGMRead(motion_data_, m)
  /\ call' = "read"
  /\ attempts' = 1
  /\ sleeps' = 0
  /\ connected' = \E g \in DOMAIN m : m[g].fresh
  /\ cancelled' = FALSE
  /\ ret' = "OK"
  /\ egm_reads' = 1
  /\ egm_writes' = 0
  /\ UNCHANGED <<info_, robot_controller_description_, motion_alloc,
                 egm_manager_, rclcpp_ok, pc, counter, init_ghost, exported, ub>>

\* a read that surfaces staleness: ERROR when no channel held a new message
read_SurfacingStaleness(m) ==
  /\ pc = "idle"
  /\ egm_manager_.constructed
  /\ motion_data_' = EGMRead(motion_data_, m)
  /\ Enter("read")
  /\ ret' = IF \E g \in DOMAIN m : m[g].fresh THEN "OK" ELSE "ERROR"
  /\ egm_reads' = 1
  /\ egm_writes' = 0
  /\ UNCHANGED <<info_, robot_controller_description_, motion_alloc,
                 egm_manager_, rclcpp_ok, pc, counter, init_ghost, exported, ub>>

\* lines 297-301; m is what the channels hold
read(m) ==
  /\ pc = "idle"
  /\ egm_manager_.constructed
  /\ motion_data_' = EGMRead(motion_data_, m)
  /\ Enter("read")
  /\ ret' = "OK"
  /\ egm_reads' = 1
  /\ egm_writes' = 0
  /\ UNCHANGED <<info_, robot_controller_description_, motion_alloc,
                 egm_manager_, rclcpp_ok, pc, counter, init_ghost, exported, ub>>

\* a write that echoes the commands it sends into the state values
write_EchoingCommands ==
  /\ pc = "idle"
  /\ egm_manager_.constructed
  /\ motion_data_' =
       [groups |->
          [g \in 1..Len(motion_data_.groups) |->
             [motion_data_.groups[g] EXCEPT !.units =
                [u \in 1..Len(motion_data_.groups[g].units) |->
                   [joints |->
                      [j \in 1..Len(motion_data_.groups[g].units[u].joints) |->
                         [motion_data_.groups[g].units[u].joints[j] EXCEPT
                            !.state =
                              motion_data_.groups[g].units[u].joints[j]
                                .command]]]]]]]
  /\ Enter("write")
  /\ ret' = "OK"
  /\ egm_reads' = 0
  /\ egm_writes' = 1
  /\ UNCHANGED <<info_, robot_controller_description_, motion_alloc,
                 egm_manager_, rclcpp_ok, pc, counter, init_ghost, exported, ub>>

\* lines 303-307: EGMManager::write sends the commands and leaves the
\* motion data as it is
write ==
  /\ pc = "idle"
  /\ egm_manager_.constructed
  /\ Enter("write")
  /\ ret' = "OK"
  /\ egm_reads' = 0
  /\ egm_writes' = 1
  /\ UNCHANGED <<members, rclcpp_ok, pc, counter, init_ghost, exported, ub>>

\* lines 299 and 305 when egm_manager_ is null
read_write_null(name, outcome) ==
  /\ pc = "idle"
  /\ ~egm_manager_.constructed
  /\ Enter(name)
  /\ UndefinedBehaviour(outcome)

\* the hosting process starts to shut down: rclcpp::ok() is false from now on
shutdown ==
  /\ pc # "crashed"
  /\ rclcpp_ok
  /\ rclcpp_ok' = FALSE
  /\ UNCHANGED <<members, pc, counter, call, ret, init_ghost, activate_ghost,
                 egm_reads, egm_writes, exported, ub>>

InitOutcome(info) ==
  \E base_ok \in BOOLEAN, rws \in RWSOutcomes, motion_ok \in BOOLEAN,
     egm_ok \in BOOLEAN :
    on_init(info, base_ok, rws, motion_ok, egm_ok)

\* on_init with any configuration
InitAny == init_ret = "none" /\ \E info \in HardwareInfos : InitOutcome(info)

\* on_init with a configuration of the lifecycle specification
InitLifecycle ==
  init_ret = "none" /\ \E info \in LifecycleInfos : InitOutcome(info)

ExportState == export_state_interfaces

ExportCommand == export_command_interfaces

Activate == on_activate

ActivateTest == on_activate_test

ActivateWait == \E message \in BOOLEAN : on_activate_wait(message)

ActivateSeed == \E m \in Messages(motion_data_) : on_activate_seed(m)

ActivateNull ==
  \E outcome \in {"crash", "SUCCESS", "ERROR"} : on_activate_null(outcome)

Read == \E m \in Messages(motion_data_) : read(m)

Write == write

ReadWriteNull ==
  \E name \in {"read", "write"}, outcome \in {"crash", "OK", "ERROR"} :
    read_write_null(name, outcome)

Shutdown == shutdown

\* the whole lifecycle of one instance
Next ==
  \/ InitLifecycle
  \/ ExportState
  \/ ExportCommand
  \/ Activate
  \/ ActivateTest
  \/ ActivateWait
  \/ ActivateSeed
  \/ ActivateNull
  \/ Read
  \/ Write
  \/ ReadWriteNull
  \/ Shutdown

Spec == Init /\ [][Next]_vars

\* a call that has been entered runs on: waitForMessage(500) comes back
\* after its timeout, sleep_for(500ms) after its interval, and
\* EGMManager::read does not block
Progress ==
  /\ WF_vars(ActivateTest)
  /\ WF_vars(ActivateWait)
  /\ WF_vars(ActivateSeed)

SpecProgress == Spec /\ Progress

\* initialization and export over all configurations
NextInit ==
  \/ InitAny
  \/ ExportState
  \/ ExportCommand

SpecInit == Init /\ [][NextInit]_vars

(***************************************************************************)
(* Properties.                                                             *)
(***************************************************************************)
\* on_activate has returned, on an instance whose channel manager exists
Activated == call = "on_activate" /\ pc = "idle" /\ egm_manager_.constructed

\* C1: when every waitForMessage of an on_activate returned false and the
\* attempts ran out, on_activate returns ERROR and performs neither the
\* seeding read nor the command seeding.
C1_RetryExhaustionFails ==
  (Activated /\ attempts > 0 /\ ~connected /\ ~cancelled)
    => (ret = "ERROR" /\ egm_reads = 0)

\* C2: an on_activate never makes more than 100 waitForMessage attempts,
\* and while the process is alive it makes the 100th when the first 99
\* returned false.
C2_HundredAttempts ==
  /\ attempts <= NUM_CONNECTION_TRIES
  /\ (Activated /\ ~connected /\ ~cancelled) => attempts = NUM_CONNECTION_TRIES

\* C3: when rclcpp::ok() is false at a test of the retry loop before a
\* message was observed, on_activate returns ERROR.
C3_CancellationFails ==
  (Activated /\ cancelled /\ ~connected) => ret = "ERROR"

\* C4: when on_activate returns SUCCESS a message was observed, exactly
\* one channel manager read was made, and every joint's command is its
\* state position with velocity 0.
C4_SuccessIsSeeded ==
  (Activated /\ ret = "SUCCESS")
    => /\ connected
       /\ egm_reads = 1
       /\ \A i \in 1..JointCount(motion_data_) :
            LET joint == JointAt(motion_data_, JointPaths(motion_data_)[i])
            IN joint.command =
                 [position |-> joint.state.position, velocity |-> 0]

\* the names of a list of interfaces
Names(interfaces) == [i \in 1..Len(interfaces) |-> interfaces[i].name]

\* the contract of a joint: command and state interfaces are
\* [position, velocity]
MeetsContract(joint) ==
  /\ Names(joint.command_interfaces) = <<"position", "velocity">>
  /\ Names(joint.state_interfaces) = <<"position", "velocity">>

Violators == {i \in 1..Len(info_.joints) : ~MeetsContract(info_.joints[i])}

\* nothing of the configuration has been built or opened
Untouched ==
  /\ robot_controller_description_ = EmptyDescription
  /\ motion_data_ = EmptyMotionData
  /\ motion_alloc = 0
  /\ ~egm_manager_.constructed
  /\ init_log = <<>>

\* C5: an on_init over joints of which one violates the interface
\* contract returns ERROR with nothing built or opened, its diagnostic
\* naming the first violating joint; on_init gets past validation only
\* when every joint conforms.
C5_ValidationFailsFast ==
  /\ (init_ret # "none" /\ Violators # {})
       => /\ init_ret = "ERROR"
          /\ Untouched
          /\ failed_stage = "base"
               \/ (failed_stage = "validation"
                   /\ failed_joint \in Violators
                   /\ \A i \in Violators : failed_joint <= i)
  /\ (init_ret # "none" /\ failed_stage \notin {"base", "validation"})
       => Violators = {}

C5_Witness ==
  /\ init_ret = "ERROR"
  /\ failed_stage = "validation"
  /\ Len(info_.joints) = 2
  /\ failed_joint = 2
  /\ MeetsContract(info_.joints[1])
  /\ Names(info_.joints[2].command_interfaces) = <<"position", "velocity">>

\* on_init ran in synthesis mode and built its description
Synthesized ==
  /\ init_ret # "none"
  /\ Contains(info_.hardware_parameters, "configure_via_rws")
  /\ info_.hardware_parameters["configure_via_rws"] \in {"false", "False"}
  /\ failed_stage \notin {"base", "validation", "description"}

\* the decimal strings of the configurations, in 1/10
Tenths ==
  ("-2.5" :> -25) @@ ("-1.0" :> -10) @@ ("0.0" :> 0) @@ ("0.5" :> 5)
    @@ ("1.0" :> 10) @@ ("2.5" :> 25)

\* C6: after an on_init that built the description in synthesis mode over
\* N joints, the description has one group holding one activated robot
\* with axes_total N and N standardized joints, the i-th with the i-th
\* joint's name, revolute iff its "type" is absent or "revolute", and
\* bounded by the min and max of its position command interface.
C6_SynthesizedDescription ==
  Synthesized =>
    LET groups == robot_controller_description_.mechanical_units_groups
        N == Len(info_.joints)
    IN /\ Len(groups) = 1
       /\ groups[1].robot.mode = "ACTIVATED"
       /\ groups[1].robot.axes_total = N
       /\ Len(groups[1].robot.standardized_joints) = N
       /\ \A i \in 1..N :
            LET joint == info_.joints[i]
                record == groups[1].robot.standardized_joints[i]
            IN /\ record.standardized_name = joint.name
               /\ record.rotating_move =
                    ("type" \notin DOMAIN joint.parameters
                     \/ joint.parameters["type"] = "revolute")
               /\ record.lower_joint_bound =
                    Tenths[joint.command_interfaces[1].min]
               /\ record.upper_joint_bound =
                    Tenths[joint.command_interfaces[1].max]

C6_Witness ==
  /\ Synthesized
  /\ init_ret = "SUCCESS"
  /\ Len(info_.joints) = 2
  /\ info_.joints[1].parameters = ("type" :> "revolute")
  /\ info_.joints[2].parameters = ("type" :> "prismatic")
  /\ ~robot_controller_description_.mechanical_units_groups[1].robot
        .standardized_joints[2].rotating_move

\* s starts, after white space and a sign, with a digit
HasIntegerPrefix(s) ==
  \E i \in 1..Len(s) :
    /\ IsDigit(CharAt(s, i))
    /\ \A k \in 1..(i - 1) :
         CharAt(s, k) = " " \/ (k = i - 1 /\ CharAt(s, k) \in {"+", "-"})

\* on_init has initialized the motion data and gone on to the ports
ReachedPorts ==
  /\ init_ret # "none"
  /\ failed_stage \in {"egm_port", "egm_manager", "none"}

\* the groups whose port parameter is absent (or empty) or has no
\* integer prefix
Unresolvable ==
  {g \in 1..Len(robot_controller_description_.mechanical_units_groups) :
     ~HasIntegerPrefix(
        At(info_.hardware_parameters,
           robot_controller_description_.mechanical_units_groups[g].name
             \o "egm_port"))}

\* C7: when on_init comes to resolve the ports and the port parameter of
\* some group is absent or not parsable as an integer, on_init returns
\* ERROR and the channel manager is not constructed.
C7_UnresolvablePortFails ==
  (ReachedPorts /\ Unresolvable # {})
    => /\ init_ret = "ERROR"
       /\ ~egm_manager_.constructed
       /\ \A i \in 1..Len(init_log) : init_log[i] # "EGMManager"

\* C8: when on_init returns ERROR the description, the motion data and
\* the channel manager are as before the call.
C8_NothingRetainedOnError ==
  init_ret = "ERROR"
    => /\ robot_controller_description_ = EmptyDescription
       /\ motion_data_ = EmptyMotionData
       /\ ~egm_manager_.constructed

\* C9: on_init ends by returning SUCCESS or ERROR, never by an exception
\* that escapes it.
C9_NoEscapingException == init_ret \in {"none", "SUCCESS", "ERROR"}

\* the addresses a result binds lie in the current motion data
BoundIntoMotionData(result, part) ==
  \A i \in 1..Len(result.value) :
    LET ptr == result.value[i].value_ptr
    IN /\ ptr.alloc = motion_alloc
       /\ ptr.part = part
       /\ \E k \in 1..JointCount(motion_data_) : JointPaths(motion_data_)[k] = ptr.path

\* C10: after a successful on_init every export_state_interfaces returns
\* the same bindings as the one before it, and so does every
\* export_command_interfaces; the bindings lie in the motion data, and an
\* export changes neither a value nor the shape of the motion data.
C10_ExportIdempotent ==
  [][ /\ (state_interfaces.returned /\ state_interfaces'.returned)
           => state_interfaces'.value = state_interfaces.value
      /\ (command_interfaces.returned /\ command_interfaces'.returned)
           => command_interfaces'.value = command_interfaces.value
      /\ (export_state_interfaces \/ export_command_interfaces)
           => /\ motion_data_' = motion_data_
              /\ motion_alloc' = motion_alloc
              /\ BoundIntoMotionData(state_interfaces, "state")'
              /\ BoundIntoMotionData(command_interfaces, "command")'
    ]_vars

C10_Witness ==
  /\ call = "export_state_interfaces"
  /\ state_interfaces.repeated
  /\ command_interfaces.repeated
  /\ Len(state_interfaces.value) = 4
  /\ \E i \in 1..JointCount(motion_data_) :
       JointAt(motion_data_, JointPaths(motion_data_)[i]).state.position # 0

\* on_init has returned ERROR, or the call that returned last is an
\* on_activate that returned ERROR
Errored ==
  \/ init_ret = "ERROR"
  \/ (call = "on_activate" /\ pc = "idle" /\ ret = "ERROR")

\* the step calls waitForMessage, read or write of the channel manager
ChannelOperation == ActivateWait \/ ActivateSeed \/ Read \/ Write

\* the step is the return of an on_activate, a read or a write
LifecycleReturn ==
  /\ ActivateWait \/ ActivateSeed \/ ActivateNull \/ Read \/ Write
       \/ ReadWriteNull
  /\ pc' = "idle"

\* C11: the channel manager is used (waitForMessage, read, write) only
\* after on_init returned SUCCESS, and once on_init or on_activate has
\* returned ERROR no on_activate, read or write uses the channel manager
\* or returns SUCCESS or OK.
C11_ErrorStateIsTerminal ==
  [][ /\ ChannelOperation => init_ret = "SUCCESS"
      /\ Errored
           => /\ ~ChannelOperation
              /\ LifecycleReturn => ret' \notin {"SUCCESS", "OK"}
    ]_vars

\* every state value of the motion data is 0: no read has met a message
NoMessageYet ==
  \A i \in 1..JointCount(motion_data_) :
    JointAt(motion_data_, JointPaths(motion_data_)[i]).state =
      [position |-> 0, velocity |-> 0]

\* C12: on an instance whose on_init returned SUCCESS, every read makes
\* exactly one channel manager read and no write and returns OK, and
\* every write makes exactly one channel manager write and no read and
\* returns OK, whether the channels hold a new message or not.
C12_ReadWriteReportOK ==
  /\ (init_ret = "SUCCESS" /\ call = "read")
       => (ret = "OK" /\ egm_reads = 1 /\ egm_writes = 0)
  /\ (init_ret = "SUCCESS" /\ call = "write")
       => (ret = "OK" /\ egm_writes = 1 /\ egm_reads = 0)

\* a read before any message has arrived
C12_Witness ==
  /\ init_ret = "SUCCESS"
  /\ call = "read"
  /\ ret = "OK"
  /\ egm_reads = 1
  /\ JointCount(motion_data_) = 2
  /\ NoMessageYet

\* on_init got past validation and built its description in query mode
QueryMode ==
  /\ init_ret # "none"
  /\ failed_stage \notin {"base", "validation"}
  /\ configure_via_rws(info_.hardware_parameters)

\* rws_ip is absent, empty or the placeholder "None"
AddressUnset == At(info_.hardware_parameters, "rws_ip") \in {"", "None"}

\* C13: an on_init in query mode whose rws_ip is absent, empty or "None"
\* returns ERROR from the description stage without having used any
\* collaborator, whatever rws_port is.
C13_UnsetAddressFails ==
  (QueryMode /\ AddressUnset)
    => /\ init_ret = "ERROR"
       /\ failed_stage = "description"
       /\ init_log = <<>>

\* the positions of init_log where on_init constructed an EGMManager
EGMConstructions == {i \in 1..Len(init_log) : init_log[i] = "EGMManager"}

\* std::stoi parses the port parameter of every group of the description
EveryPortResolved ==
  \A g \in 1..Len(robot_controller_description_.mechanical_units_groups) :
    stoi(At(info_.hardware_parameters,
            robot_controller_description_.mechanical_units_groups[g].name
              \o "egm_port")).threw = "none"

\* C14: on_init constructs the channel manager at most once and only when
\* the port of every group has been resolved; the configurations it is
\* constructed from are one per group of the description, the i-th
\* referring to the i-th group.
C14_ConfigurationsMirrorGroups ==
  LET groups == robot_controller_description_.mechanical_units_groups
      configurations == egm_manager_.channel_configurations
  IN /\ Cardinality(EGMConstructions) <= 1
     /\ EGMConstructions # {} => EveryPortResolved
     /\ egm_manager_.constructed
          => /\ EGMConstructions # {}
             /\ Len(configurations) = Len(groups)
             /\ \A i \in 1..Len(groups) :
                  configurations[i].mech_unit_group = groups[i]

\* a controller with two groups, each on its own port
C14_Witness ==
  /\ init_ret = "SUCCESS"
  /\ egm_manager_.constructed
  /\ Len(robot_controller_description_.mechanical_units_groups) = 2
  /\ Len(egm_manager_.channel_configurations) = 2
  /\ egm_manager_.channel_configurations[1].mech_unit_group.name = "rob1"
  /\ egm_manager_.channel_configurations[2].mech_unit_group.name = "rob2"
  /\ egm_manager_.channel_configurations[1].port_number
       # egm_manager_.channel_configurations[2].port_number

\* C15: when on_init does not fail, the configuration of every group
\* carries the number std::stoi parsed from the group's port parameter,
\* also when that number lies outside 0..65535.
C15_PortPreserved ==
  egm_manager_.constructed
    => \A i \in 1..Len(egm_manager_.channel_configurations) :
         LET configuration == egm_manager_.channel_configurations[i]
             p == stoi(At(info_.hardware_parameters,
                          configuration.mech_unit_group.name \o "egm_port"))
         IN p.threw = "none" /\ configuration.port_number = p.value

\* on_init has come to build its description
PastValidation ==
  /\ init_ret # "none"
  /\ failed_stage \notin {"base", "validation"}

\* configure_via_rws is present with the value "false" or "False"
SynthesisSelected ==
  /\ "configure_via_rws" \in DOMAIN info_.hardware_parameters
  /\ info_.hardware_parameters["configure_via_rws"] \in {"false", "False"}

\* on_init has constructed an RWSManager or asked it for the description
UsedRWS ==
  \E i \in 1..Len(init_log) :
    init_log[i] \in {"RWSManager", "establishRWSConnection"}

\* the description carries what the synthesis builder writes
SynthesisBuilt ==
  LET groups == robot_controller_description_.mechanical_units_groups
  IN /\ robot_controller_description_.header.robot_ware_version = <<7, 3, 2>>
     /\ Len(groups) = 1
     /\ groups[1].name = ""
     /\ groups[1].robot.axes_total = Len(info_.joints)
     /\ \A i \in 1..Len(groups[1].robot.standardized_joints) :
          groups[1].robot.standardized_joints[i].standardized_name =
            info_.joints[i].name

\* the description is as the query builder leaves it: untouched, or what
\* the controller reported
QueryBuilt ==
  /\ "rws_port" \in DOMAIN info_.hardware_parameters
  /\ \/ robot_controller_description_ = EmptyDescription /\ init_ret # "SUCCESS"
     \/ /\ robot_controller_description_ \in ControllerDescriptions
        /\ UsedRWS

\* C16: an on_init that comes to build its description runs the synthesis
\* builder, and opens no connection to the controller's metadata service,
\* when configure_via_rws is present as "false" or "False"; in every other
\* case (absent, "true", any other string) it runs the query builder; it
\* never runs both.
C16_ModeSelection ==
  PastValidation =>
    IF SynthesisSelected
    THEN SynthesisBuilt /\ ~UsedRWS /\ ~QueryBuilt
    ELSE QueryBuilt /\ ~SynthesisBuilt

\* a value that is neither "true" nor "false" selects query mode
C16_Witness ==
  /\ init_ret = "SUCCESS"
  /\ At(info_.hardware_parameters, "configure_via_rws") = "yes"
  /\ Len(info_.joints) = 2
  /\ QueryBuilt
  /\ Len(robot_controller_description_.mechanical_units_groups) = 2

\* the state values, the command values and the names of the joints of a
\* motion data, in group, unit, joint order
StateValues(motion) ==
  [i \in 1..JointCount(motion) |-> JointAt(motion, JointPaths(motion)[i]).state]

CommandValues(motion) ==
  [i \in 1..JointCount(motion) |-> JointAt(motion, JointPaths(motion)[i]).command]

\* the groups, units and joints of a motion data and their order
Shape(motion) ==
  <<[g \in 1..Len(motion.groups) |-> motion.groups[g].name],
    JointPaths(motion),
    [i \in 1..JointCount(motion) |-> JointAt(motion, JointPaths(motion)[i]).name]>>

\* C17: a step changes state values only when it is on_init or a channel
\* manager read (read's, or the one of on_activate) and command values
\* only when it is on_init or the seeding of on_activate; read leaves the
\* command values, write leaves state and command values, and no step
\* after on_init changes the groups, units and joints or their order.
C17_SingleWriter ==
  [][ /\ StateValues(motion_data_') # StateValues(motion_data_)
           => (init_ret = "none" \/ Read \/ ActivateSeed)
      /\ CommandValues(motion_data_') # CommandValues(motion_data_)
           => (init_ret = "none" \/ ActivateSeed)
      /\ Read => CommandValues(motion_data_') = CommandValues(motion_data_)
      /\ Write => /\ StateValues(motion_data_') = StateValues(motion_data_)
                  /\ CommandValues(motion_data_') = CommandValues(motion_data_)
      /\ init_ret # "none" => Shape(motion_data_') = Shape(motion_data_)
      /\ call' = "on_activate" => egm_reads' <= 1
    ]_vars

\* a write after the seeding and a later read: the commands are still the
\* seeded ones, the state is the one read
C17_Witness ==
  /\ call = "write"
  /\ ret = "OK"
  /\ JointCount(motion_data_) = 2
  /\ CommandValues(motion_data_)[1] = [position |-> Sample(1).position, velocity |-> 0]
  /\ StateValues(motion_data_)[1] = Sample(1)
  /\ StateValues(motion_data_)[2] = Sample(2)

\* the 0-based positions of name where the marker "joint" starts
MarkerPositions(name) ==
  {k \in 0..Len(name) :
     k + 5 <= Len(name) /\ SubSeq(name, k + 1, k + 5) = "joint"}

\* name without what stands before its first "joint"
NormalizedName(name) ==
  IF MarkerPositions(name) = {} THEN name
  ELSE LET first == CHOOSE k \in MarkerPositions(name) :
                      \A other \in MarkerPositions(name) : k <= other
       IN SubSeq(name, first + 1, Len(name))

\* result holds, for every joint of the motion data in group, unit, joint
\* order, a position and then a velocity entry under the normalized name,
\* bound to the joint's values of the part
ExportShape(result, part) ==
  /\ result.returned
  /\ Len(result.value) = 2 * JointCount(motion_data_)
  /\ \A i \in 1..JointCount(motion_data_) :
       LET path == JointPaths(motion_data_)[i]
           name == NormalizedName(JointAt(motion_data_, path).name)
       IN /\ result.value[2 * i - 1] =
               Interface(name, HW_IF_POSITION,
                         Address(motion_alloc, path, part, "position"))
          /\ result.value[2 * i] =
               Interface(name, HW_IF_VELOCITY,
                         Address(motion_alloc, path, part, "velocity"))

\* C18: after a successful on_init each export returns, whatever the
\* names of the joints, two entries per joint of the motion data,
\* position then velocity, in group, unit, joint order, under the joint's
\* name without what stands before its first "joint".
C18_ExportShape ==
  /\ (init_ret = "SUCCESS" /\ call = "export_state_interfaces")
       => (ret = "returned" /\ ExportShape(state_interfaces, "state"))
  /\ (init_ret = "SUCCESS" /\ call = "export_command_interfaces")
       => (ret = "returned" /\ ExportShape(command_interfaces, "command"))

\* an on_activate is under way on an instance with a channel manager
Activating == pc \in {"activate_test", "activate_wait", "activate_seed"}

\* C19, the bound: on an instance with a channel manager on_activate
\* tests its loop at most NUM_CONNECTION_TRIES times; once a waitForMessage
\* has returned true it neither waits nor sleeps again but goes on to
\* return; and each sleep follows a waitForMessage that returned false.
C19_BoundedWaiting ==
  [][ /\ counter' <= NUM_CONNECTION_TRIES
      /\ attempts' <= counter' \/ pc' = "idle"
      /\ (Activating /\ connected)
           => /\ attempts' = attempts
              /\ sleeps' = sleeps
              /\ pc' \in {pc, "idle"}
      /\ (Activating /\ sleeps' # sleeps)
           => /\ sleeps' = sleeps + 1
              /\ attempts' = attempts + 1
              /\ ~connected'
    ]_vars

\* C19: every on_activate on an instance with a channel manager returns,
\* whatever waitForMessage and rclcpp::ok() yield, within the bound above.
C19_ActivationTerminates ==
  /\ C19_BoundedWaiting
  /\ (Activating /\ egm_manager_.constructed) ~> (pc = "idle")

\* an on_activate that returned after a message on its second attempt
C19_Witness ==
  /\ call = "on_activate"
  /\ pc = "idle"
  /\ ret = "SUCCESS"
  /\ connected
  /\ attempts = 2
  /\ sleeps = 1

\* C20: waitForMessage and sleep_for are called only by on_activate: a
\* step makes an attempt or sleeps only as the loop body of an on_activate,
\* and after a read, a write, an export or on_init the call has made no
\* attempt and has not slept.
C20_BlockingOnlyInActivation ==
  [][ /\ (attempts' > attempts \/ sleeps' > sleeps)
           => (ActivateWait /\ call = "on_activate" /\ call' = "on_activate")
      /\ call' \in {"on_init", "export_state_interfaces",
                    "export_command_interfaces", "read", "write"}
           => (attempts' = 0 /\ sleeps' = 0)
    ]_vars

\* a read after an on_activate that seeded the commands: the read itself
\* has made no attempt and has not slept
C20_Witness ==
  /\ call = "read"
  /\ ret = "OK"
  /\ egm_reads = 1
  /\ attempts = 0
  /\ sleeps = 0
  /\ \E i \in 1..JointCount(motion_data_) :
       JointAt(motion_data_, JointPaths(motion_data_)[i]).command.position # 0

====
